---- MODULE Spec2Model ----
(***************************************************************************)
(* A model of the Pricepally weekly demand forecasting pipeline:           *)
(*   app/data/preprocessing.py        build_weekly_timeseries              *)
(*   app/features/xgboost_features.py create_xgboost_features              *)
(*   app/models/heuristics.py         the three heuristic forecasters      *)
(*   app/models/xgboost_model.py      training and the recursive forecast  *)
(*   pipeline/forecast_pipeline.py    forecast_single_product, run_pipeline*)
(*                                                                         *)
(* Numbers.  Quantities are integers.  Log-scale values (y, the lags, the  *)
(* model's predictions) are fixed-point integers, 1000 = 1.0.  A mean or a *)
(* smoothed level is an exact rational <<numerator, denominator>> with a   *)
(* positive denominator.  NaN / None / NaT is the value Null.              *)
(* Product names, units and sales types are small integer codes that are   *)
(* ordered as the strings they stand for; the code NaNKey is a missing     *)
(* (NaN) key, which never compares equal, not even to itself.              *)
(***************************************************************************)
EXTENDS Integers, Sequences, FiniteSets, TLC

VARIABLES
    pc,               \* position of the running function
    df,               \* the frame a function works on (raw rows; the recursive forecast's df)
    ts,               \* the weekly table
    filter_attribute_products,
    today,            \* pd.Timestamp.now().normalize(), a day number
    horizon,          \* the horizon argument / the configured FORECAST_HORIZON
    series,           \* the quantity series handed to a heuristic forecaster
    window,           \* rolling_mean_forecast's window
    trained,          \* run_pipeline: the global model exists
    encoders,         \* the categorical encoders fitted with the model
    products,         \* run_pipeline: the distinct product groups, in loop order
    idx,              \* run_pipeline: number of groups the loop has finished
    all_forecasts,    \* run_pipeline: per-group forecast tables collected
    failed_products,  \* run_pipeline: failed groups with their reason
    current,          \* forecast_single_product: (product_name, product_uom, sales_type)
    product_df,       \* forecast_single_product: the group's rows
    method,           \* forecast_single_product: the method tag
    forecast_values,  \* the forecast list of the function that ran last
    forecast_df,      \* forecast_single_product: the table it returns
    called,           \* forecast_single_product: the forecasters it has invoked
    step,             \* xgboost_recursive_forecast: steps attempted so far
    forecasts,        \* xgboost_recursive_forecast: the list being built
    evaluated,        \* xgboost_recursive_forecast: per completed step, the row evaluated and its prediction
    failed_step,      \* xgboost_recursive_forecast: the step that failed, 0 when none has
    final_forecast,   \* run_pipeline's return value
    failed_csv,       \* failed_forecasts.csv: whether it was written, and its rows
    date_row,         \* week_month_to_date: its argument row (year, month, week_month)
    dates,            \* the date week_month_to_date returned / week_month_from_date is given
    week              \* week_month_from_date: the week number it returned

vars == <<pc, df, ts, filter_attribute_products, today, horizon, series, window,
          trained, encoders, products, idx, all_forecasts, failed_products,
          current, product_df, method, forecast_values, forecast_df, called,
          step, forecasts, evaluated, failed_step, final_forecast, failed_csv,
          date_row, dates, week>>

-----------------------------------------------------------------------------
(* Bounds of the model.                                                    *)

MaxRaw == 2          \* transaction rows in an aggregator input
MaxQty == 2          \* largest raw quantity in an aggregator input
MaxFeatRows == 5     \* rows of one group in a feature-builder input
MaxSeries == 4       \* length of a series handed to a heuristic forecaster
MaxHorizon == 3      \* largest horizon argument
MaxShort == 3        \* length of the exhaustively enumerated group histories
MaxLong == 19        \* length of the longest group history
MaxYears == 1        \* calendar years after BaseYear that dates are drawn from

-----------------------------------------------------------------------------
(* Values.                                                                 *)

Null == -999999

NaNKey == 0

Max(a, b) == IF a >= b THEN a ELSE b

Min(a, b) == IF a <= b THEN a ELSE b

Abs(a) == IF a >= 0 THEN a ELSE -a

RECURSIVE SumSeq(_)
SumSeq(s) == IF Len(s) = 0 THEN 0 ELSE Head(s) + SumSeq(Tail(s))

\* Lexicographic order on integer tuples of equal length.
RECURSIVE LexLess(_, _)
LexLess(a, b) ==
    IF Len(a) = 0 THEN FALSE
    ELSE IF Head(a) # Head(b) THEN Head(a) < Head(b)
    ELSE LexLess(Tail(a), Tail(b))

\* A stable sort of s by the keys key[i] of its elements, as
\* DataFrame.sort_values on several columns (a lexsort): equal keys keep
\* their input order.
SortBy(s, key) ==
    LET rank == [i \in DOMAIN s |->
                   Cardinality({j \in DOMAIN s :
                       \/ LexLess(key[j], key[i])
                       \/ (key[j] = key[i] /\ j < i)}) + 1]
    IN  [k \in DOMAIN s |-> s[CHOOSE i \in DOMAIN s : rank[i] = k]]

\* The elements of a finite set of integer tuples, ascending.
SetToSortedSeq(S) ==
    [k \in 1..Cardinality(S) |->
        CHOOSE x \in S : Cardinality({z \in S : LexLess(z, x)}) = k - 1]

-----------------------------------------------------------------------------
(* app/data/preprocessing.py                                               *)

\* Product names of the aggregator inputs: 1 a real product, 2 the label
\* "packaging", 3 the same label written "Packaging".
PlainName == 1
PackagingName == 2
PackagingCapName == 3

\* str.lower() on a product name.
Lower(name) == IF name = PackagingCapName THEN PackagingName ELSE name

\* The names of ATTRIBUTE_ONLY_PRODUCTS that the inputs can hold.
ATTRIBUTE_ONLY_PRODUCTS == {PackagingName}

WeekKey(r) == <<r.year, r.month, r.week_month, r.product_name, r.product_uom, r.sales_type>>

\* df[["total_qty_invoiced", "total_qty_delivered"]].max(axis=1)
RowQtyForForecast(r) == Max(r.total_qty_invoiced, r.total_qty_delivered)

\* groupby(key)["qty_for_forecast"].sum().reset_index(): one row per key, keys ascending.
GroupSum(rows) ==
    LET keys == SetToSortedSeq({WeekKey(rows[i]) : i \in DOMAIN rows})
        members(key) == SelectSeq(rows, LAMBDA r : WeekKey(r) = key)
    IN  [k \in DOMAIN keys |->
            [year |-> keys[k][1], month |-> keys[k][2], week_month |-> keys[k][3],
             product_name |-> keys[k][4], product_uom |-> keys[k][5],
             sales_type |-> keys[k][6],
             qty_for_forecast |->
                 SumSeq([i \in DOMAIN members(keys[k]) |->
                            RowQtyForForecast(members(keys[k])[i])])]]

build_weekly_timeseries(rows, filter) ==
    LET kept == IF filter
                THEN SelectSeq(rows, LAMBDA r : Lower(r.product_name) \notin ATTRIBUTE_ONLY_PRODUCTS)
                ELSE rows
    IN  GroupSum(kept)

\* The transaction rows an aggregator input is drawn from.
RawRows ==
    [year : {2024}, month : {1}, week_month : {1, 2},
     product_name : {PlainName, PackagingName, PackagingCapName},
     product_uom : {1}, sales_type : {1},
     total_qty_invoiced : 0..MaxQty, total_qty_delivered : 0..MaxQty]

RawTables == UNION {[1..n -> RawRows] : n \in 0..MaxRaw}

-----------------------------------------------------------------------------
(* utils/date_utils.py.  A date is its day number, 0 being 2024-01-01      *)
(* (a Monday); NaT is Null.                                                *)

BaseYear == 2024

IsLeap(yr) == (yr % 4 = 0 /\ yr % 100 # 0) \/ yr % 400 = 0

DaysInMonth(yr, m) ==
    IF m = 2 THEN (IF IsLeap(yr) THEN 29 ELSE 28)
    ELSE IF m \in {4, 6, 9, 11} THEN 30 ELSE 31

DaysInYear(yr) == IF IsLeap(yr) THEN 366 ELSE 365

\* The day number of a valid calendar date of BaseYear or later.
DayNumber(yr, m, d) ==
    SumSeq([k \in 1..(yr - BaseYear) |-> DaysInYear(BaseYear + k - 1)])
    + SumSeq([k \in 1..(m - 1) |-> DaysInMonth(yr, k)])
    + (d - 1)

WEEK_START_DAY == [w \in 1..4 |-> 7 * (w - 1) + 1]

\* week_month_to_date: every exception (a week outside 1..4, a month that
\* pd.to_datetime rejects) is swallowed and NaT returned.  The tables hold
\* years from BaseYear on.
week_month_to_date(row) ==
    IF row.week_month \notin DOMAIN WEEK_START_DAY THEN Null
    ELSE IF row.month \notin 1..12 THEN Null
    ELSE DayNumber(row.year, row.month, WEEK_START_DAY[row.week_month])

\* The (year, month, week_month) of the k-th business week counted from
\* January 2024, week 1 (k = 0): four business weeks to a month.
BusinessWeek(k) ==
    [year |-> BaseYear + (k \div 48), month |-> ((k \div 4) % 12) + 1,
     week_month |-> (k % 4) + 1]

\* The calendar date of a day number: Timestamp.year, .month, .day.
YearOf(n) ==
    CHOOSE yr \in BaseYear..(BaseYear + 3) :
        DayNumber(yr, 1, 1) <= n /\ n < DayNumber(yr, 1, 1) + DaysInYear(yr)

MonthOf(n) ==
    CHOOSE m \in 1..12 :
        /\ DayNumber(YearOf(n), m, 1) <= n
        /\ n < DayNumber(YearOf(n), m, 1) + DaysInMonth(YearOf(n), m)

DayOf(n) == n - DayNumber(YearOf(n), MonthOf(n), 1) + 1

\* Timestamp.weekday(): Monday 0 .. Sunday 6.
Weekday(n) == n % 7

week_month_from_date_unclipped(n) == ((DayOf(n) - 1) \div 7) + 1

\* week_month_from_date: ((day - 1) // 7 + 1).clip(upper=4)
week_month_from_date(n) == Min(((DayOf(n) - 1) \div 7) + 1, 4)

-----------------------------------------------------------------------------
(* app/features/xgboost_features.py                                        *)

\* A missing mean or standard deviation: a rational with denominator 0.
NullRat == <<0, 0>>

\* np.log1p on a quantity, in thousandths; NaN below -1.  (The tables hold no
\* quantity -1, whose log1p is -inf.)
Log1p(q) ==
    CASE q < -1 -> Null
      [] q = 0  -> 0
      [] q = 1  -> 693
      [] q = 2  -> 1099
      [] q = 3  -> 1386
      [] q = 4  -> 1609
      [] q = 10 -> 2398
      [] q = 50 -> 3932
      [] q = 60 -> 4111

\* A NaN key never equals anything.
KeyEq(a, b) == a # NaNKey /\ b # NaNKey /\ a = b

\* sort_values puts NaN keys and NaT dates last.
KeyOrd(k) == IF k = NaNKey THEN 1000000 ELSE k

DateOrd(d) == IF d = Null THEN 1000000 ELSE d

GroupOf(r) == <<r.product_name, r.product_uom, r.sales_type>>

\* Two rows fall into the same group of groupby(group_cols); a row with a NaN
\* key is in no group (groupby drops it).
SameGroup(r, q) ==
    /\ KeyEq(r.product_name, q.product_name)
    /\ KeyEq(r.product_uom, q.product_uom)
    /\ KeyEq(r.sales_type, q.sales_type)

\* ts.sort_values(["product_name", "product_uom", "date"])
FeatureSortKey(r) == <<KeyOrd(r.product_name), KeyOrd(r.product_uom), DateOrd(r.date)>>

\* if "y" not in ts.columns: ts["y"] = np.log1p(ts["qty_for_forecast"])
TargetY(r) == IF "y" \in DOMAIN r THEN r.y ELSE Log1p(r.qty_for_forecast)

\* ts.groupby(group_cols)["y"].shift(lag), at position i of the frame f:
\* the y of the row lag places earlier in the same group, in frame order.
GroupShift(f, i, lag) ==
    LET at == {j \in 1..(i - 1) :
                /\ SameGroup(f[j], f[i])
                /\ Cardinality({k \in j..(i - 1) : SameGroup(f[k], f[i])}) = lag}
    IN  IF at = {} THEN Null ELSE TargetY(f[CHOOSE j \in at : TRUE])

\* The whole column ts.groupby(group_cols)["y"].shift(lag) of the frame f.
ShiftColumn(f, lag) == [i \in DOMAIN f |-> GroupShift(f, i, lag)] \o <<>>

\* <series>.rolling(w).mean() at position i: over the frame's last w
\* positions, NaN unless all w are there and non-null.
RollingMean(x, i, w) ==
    IF i < w \/ \E j \in (i - w + 1)..i : x[j] = Null THEN NullRat
    ELSE <<SumSeq([j \in 1..w |-> x[i - w + j]]), w>>

\* <series>.rolling(w).std() at position i, as its square, the sample variance
\* (w * sum of squares - square of sum) / (w * (w - 1)).
RollingStd(x, i, w) ==
    IF i < w \/ \E j \in (i - w + 1)..i : x[j] = Null THEN NullRat
    ELSE <<w * SumSeq([j \in 1..w |-> x[i - w + j] * x[i - w + j]])
             - SumSeq([j \in 1..w |-> x[i - w + j]]) * SumSeq([j \in 1..w |-> x[i - w + j]]),
           w * (w - 1)>>

\* The columns create_xgboost_features leaves untouched.
BaseColumns(r) ==
    [product_name |-> r.product_name, product_uom |-> r.product_uom,
     sales_type |-> r.sales_type, date |-> r.date, year |-> r.year,
     month |-> r.month, week_month |-> r.week_month,
     qty_for_forecast |-> r.qty_for_forecast]

\* The feature columns of the sorted frame f, given its three shifted
\* columns; the rolling features are computed on shift1 as a whole.
FeatureRows(f, shift1, shift4, shift8) ==
    [i \in DOMAIN f |->
        BaseColumns(f[i]) @@
        [y |-> TargetY(f[i]),
         lag_1 |-> shift1[i],
         lag_4 |-> shift4[i],
         lag_8 |-> shift8[i],
         roll_mean_4 |-> RollingMean(shift1, i, 4),
         roll_mean_8 |-> RollingMean(shift1, i, 8),
         roll_std_4 |-> RollingStd(shift1, i, 4)]] \o <<>>

FeaturesOfSorted(f) ==
    CHOOSE rows \in {FeatureRows(f, s1, s4, s8) :
                        s1 \in {ShiftColumn(f, 1)},
                        s4 \in {ShiftColumn(f, 4)},
                        s8 \in {ShiftColumn(f, 8)}} : TRUE

\* month_sin and month_cos depend on the row's month alone and are never
\* null; the rows carry the month.
create_xgboost_features(t) ==
    CHOOSE rows \in {FeaturesOfSorted(f) :
                        f \in {SortBy(t, [i \in DOMAIN t |-> FeatureSortKey(t[i])]) \o <<>>}} : TRUE

-----------------------------------------------------------------------------
(* app/models/heuristics.py.  A forecast value is a rational.              *)

Rat(n) == <<n, 1>>

RatNeg(a) == a[2] # 0 /\ a[1] < 0

RatIsNaN(a) == a[2] = 0

\* [value] * horizon: empty for a horizon of 0 or less.
Repeat(value, h) == [k \in 1..h |-> value]

\* series.mean(): NaN for the empty series.
SeriesMean(x) == IF Len(x) = 0 THEN NullRat ELSE <<SumSeq(x), Len(x)>>

\* series.tail(w)
SeriesTail(x, w) == IF w <= 0 THEN <<>> ELSE SubSeq(x, Len(x) - Min(w, Len(x)) + 1, Len(x))

rolling_mean_forecast_unclamped(x, h, w) ==
    Repeat(IF Len(x) < w THEN SeriesMean(x) ELSE SeriesMean(SeriesTail(x, w)), h)

rolling_mean_forecast(x, h, w) ==
    LET forecast_value == IF Len(x) < w THEN SeriesMean(x) ELSE SeriesMean(SeriesTail(x, w))
    IN  Repeat(IF RatIsNaN(forecast_value) \/ RatNeg(forecast_value) THEN Rat(0)
               ELSE forecast_value, h)

\* alpha = 0.3
ALPHA == <<3, 10>>

\* level = alpha * value + (1 - alpha) * level, over x[i..]
RECURSIVE Smooth(_, _, _)
Smooth(level, x, i) ==
    IF i > Len(x) THEN level
    ELSE Smooth(<<ALPHA[1] * x[i] * level[2] + (ALPHA[2] - ALPHA[1]) * level[1],
                  ALPHA[2] * level[2]>>, x, i + 1)

exponential_smoothing_forecast(x, h) ==
    IF Len(x) = 0 THEN Repeat(Rat(0), h)
    ELSE LET level == Smooth(Rat(x[1]), x, 2)
         IN  Repeat(IF RatNeg(level) THEN Rat(0) ELSE level, h)

naive_forecast(x, h) ==
    IF Len(x) = 0 THEN Repeat(Rat(0), h)
    ELSE Repeat(Rat(Max(0, x[Len(x)])), h)

-----------------------------------------------------------------------------
(* config.py                                                               *)

FORECAST_HORIZON == 2

MIN_XGBOOST_ROWS == 10

INACTIVE_GAP_WEEKS == 4

-----------------------------------------------------------------------------
(* app/models/xgboost_model.py                                             *)

\* df[col].unique(): the distinct values in order of first appearance.
RECURSIVE UniqueSeq(_)
UniqueSeq(x) ==
    IF Len(x) = 0 THEN <<>>
    ELSE LET rest == UniqueSeq(SubSeq(x, 1, Len(x) - 1))
         IN  IF \E i \in DOMAIN rest : rest[i] = x[Len(x)] THEN rest
             ELSE Append(rest, x[Len(x)])

\* encode_categorical_features(df) with encoders=None: value -> index.
FitEncoders(t) ==
    [product_name |-> UniqueSeq([i \in DOMAIN t |-> t[i].product_name]),
     product_uom  |-> UniqueSeq([i \in DOMAIN t |-> t[i].product_uom]),
     sales_type   |-> UniqueSeq([i \in DOMAIN t |-> t[i].sales_type])]

\* df[col].map(encoders[col]).fillna(-1).astype(int)
Encode(enc, v) ==
    IF \E i \in DOMAIN enc : KeyEq(enc[i], v)
    THEN (CHOOSE i \in DOMAIN enc : KeyEq(enc[i], v)) - 1
    ELSE -1

\* A row has a NaN among FEATURES or in the target y = log1p(qty_for_forecast).
HasMissingFeature(r) ==
    \/ r.lag_1 = Null \/ r.lag_4 = Null \/ r.lag_8 = Null
    \/ RatIsNaN(r.roll_mean_4) \/ RatIsNaN(r.roll_mean_8) \/ RatIsNaN(r.roll_std_4)
    \/ Log1p(r.qty_for_forecast) = Null

\* train_df.dropna(subset=FEATURES + ["y"])
TrainingRows(t) == SelectSeq(t, LAMBDA r : ~HasMissingFeature(r))

\* The values model.predict can return (log scale, thousandths).
Predictions == {-1099, 693, 1609}

\* np.expm1 on a prediction, to the nearest whole quantity.
Expm1(l) ==
    CASE l = -1099 -> -1
      [] l = 693   -> 1
      [] l = 1609  -> 4

\* pred = max(np.expm1(pred_log), 0)
ClampedPrediction(pred_log) == Max(Expm1(pred_log), 0)

\* df["y"] = np.log1p(df["qty_for_forecast"])
WithLogTarget(rows) == [i \in DOMAIN rows |-> [rows[i] EXCEPT !.y = Log1p(rows[i].qty_for_forecast)]]

\* One successful step of the recursive loop on frame d with prediction
\* pred_log: the featured frame, the row evaluated, the frame with the
\* synthetic row appended.
AppendPrediction(f, enc, pred_log) ==
    LET last_row == f[Len(f)]
        next_row == [last_row EXCEPT
                        !.date = IF @ = Null THEN Null ELSE @ + 7,
                        !.qty_for_forecast = ClampedPrediction(pred_log),
                        !.y = pred_log]
    IN  [last_row |-> last_row @@
                      [product_name_encoded |-> Encode(enc.product_name, last_row.product_name),
                       product_uom_encoded |-> Encode(enc.product_uom, last_row.product_uom),
                       sales_type_encoded |-> Encode(enc.sales_type, last_row.sales_type)],
         df |-> Append(f, next_row)]

RecursiveStep(d, enc, pred_log) ==
    CHOOSE r \in {AppendPrediction(f, enc, pred_log) : f \in {create_xgboost_features(d)}} : TRUE

ZeroFillShort(h, step0) == Repeat(Rat(0), h - step0 - 1)

\* forecasts.extend([0.0] * (horizon - step)), step counting from 0.
ZeroFill(h, step0) == Repeat(Rat(0), h - step0)

-----------------------------------------------------------------------------
(* pipeline/forecast_pipeline.py: forecast_single_product                  *)

\* The rows of group g, sorted by date.  (The tables hold no empty
\* sales_type, for which the sales_type filter is skipped.)
ProductRows(t, g) ==
    LET rows == SelectSeq(t, LAMBDA r :
                    /\ KeyEq(r.product_name, g[1])
                    /\ KeyEq(r.product_uom, g[2])
                    /\ KeyEq(r.sales_type, g[3]))
    IN  SortBy(rows, [i \in DOMAIN rows |-> <<DateOrd(rows[i].date)>>])

Quantities(rows) == [i \in DOMAIN rows |-> rows[i].qty_for_forecast]

\* product_df[series > 0]["date"].max(): NaT when there is no such date.
LastNonzeroDate(rows) ==
    LET positive == {rows[i].date : i \in {j \in DOMAIN rows :
                      rows[j].qty_for_forecast > 0 /\ rows[j].date # Null}}
    IN  IF positive = {} THEN Null ELSE CHOOSE d \in positive : \A e \in positive : e <= d

\* (today - last_nonzero_date).days // 7
GapWeeks(rows, now) == (now - LastNonzeroDate(rows)) \div 7

IsInactiveStrict(rows, now) ==
    LastNonzeroDate(rows) = Null \/ GapWeeks(rows, now) > INACTIVE_GAP_WEEKS

\* gap_weeks >= INACTIVE_GAP_WEEKS, gap_weeks being infinite without a date.
IsInactive(rows, now) ==
    LastNonzeroDate(rows) = Null \/ GapWeeks(rows, now) >= INACTIVE_GAP_WEEKS

\* len(product_df.dropna(subset=["lag_1", "lag_4", "lag_8"]))
FullyLagged(rows) ==
    Len(SelectSeq(rows, LAMBDA r : r.lag_1 # Null /\ r.lag_4 # Null /\ r.lag_8 # Null))

SufficientStrict(rows) == FullyLagged(rows) > MIN_XGBOOST_ROWS

\* The sufficiency check of the model branch.
Sufficient(rows) == FullyLagged(rows) >= MIN_XGBOOST_ROWS

SumSquares(x) == SumSeq([i \in DOMAIN x |-> x[i] * x[i]])

\* cv < 0.3, where cv = std / mean for a positive mean and infinite otherwise,
\* std being the sample standard deviation: with n = len, S = sum, Q = sum of
\* squares, std^2 = (n*Q - S^2) / (n*(n-1)) and mean = S/n.
CvBelowThreshold(x) ==
    /\ SumSeq(x) > 0
    /\ 100 * Len(x) * (Len(x) * SumSquares(x) - SumSeq(x) * SumSeq(x))
         < 9 * (Len(x) - 1) * SumSeq(x) * SumSeq(x)

\* abs(trend) < mean_val * 0.1, trend = series.diff().mean() = (last - first) / (n - 1)
TrendBelowThreshold(x) ==
    10 * Len(x) * Abs(x[Len(x)] - x[1]) < (Len(x) - 1) * SumSeq(x)

AdaptiveMethodEither(x) ==
    IF Len(x) = 0 \/ SumSeq(x) = 0 THEN "HEURISTIC_ZERO"
    ELSE IF Len(x) = 1 THEN "HEURISTIC_NAIVE"
    ELSE IF CvBelowThreshold(x) \/ TrendBelowThreshold(x) THEN "HEURISTIC_NAIVE"
    ELSE "HEURISTIC_ROLLING_MEAN"

\* The adaptive heuristic branch: its method tag.
AdaptiveMethod(x) ==
    IF Len(x) = 0 \/ SumSeq(x) = 0 THEN "HEURISTIC_ZERO"
    ELSE IF Len(x) = 1 THEN "HEURISTIC_NAIVE"
    ELSE IF CvBelowThreshold(x) /\ TrendBelowThreshold(x) THEN "HEURISTIC_NAIVE"
    ELSE "HEURISTIC_ROLLING_MEAN"

\* The forecaster the adaptive branch invokes for a method tag.
AdaptiveForecaster(m) ==
    IF m = "HEURISTIC_NAIVE" THEN {"naive_forecast"}
    ELSE IF m = "HEURISTIC_ROLLING_MEAN" THEN {"rolling_mean_forecast"}
    ELSE {}

AdaptiveValues(x, h) ==
    IF AdaptiveMethod(x) = "HEURISTIC_ZERO" THEN Repeat(Rat(0), h)
    ELSE IF AdaptiveMethod(x) = "HEURISTIC_NAIVE" THEN naive_forecast(x, h)
    ELSE rolling_mean_forecast(x, h, 4)

\* pd.date_range(start=today, periods=h, freq="W-SUN"): the Sundays from
\* today on.
FutureDates(now, h) == [k \in 1..h |-> now + ((6 - Weekday(now)) % 7) + 7 * (k - 1)]

\* The table forecast_single_product returns.
ForecastFrame(now, h, values, g, m) ==
    [k \in 1..h |->
        [date |-> FutureDates(now, h)[k],
         forecast_qty |-> values[k],
         year |-> YearOf(FutureDates(now, h)[k]),
         month |-> MonthOf(FutureDates(now, h)[k]),
         week_month |-> week_month_from_date(FutureDates(now, h)[k]),
         product_name |-> g[1], product_uom |-> g[2], sales_type |-> g[3],
         forecast_method |-> m]]

-----------------------------------------------------------------------------
(* The values of the variables a specification does not use.               *)

NoFile == [written |-> FALSE, rows |-> <<>>]

pipelineVars == <<trained, encoders, products, idx, all_forecasts, failed_products,
                  final_forecast, failed_csv>>

selectorVars == <<current, product_df, method, forecast_values, forecast_df, called>>

recursiveVars == <<step, forecasts, evaluated, failed_step>>

heuristicVars == <<series, window>>

NoEncoders == [product_name |-> <<>>, product_uom |-> <<>>, sales_type |-> <<>>]

PipelineIdle ==
    /\ trained = FALSE
    /\ encoders = NoEncoders
    /\ products = <<>>
    /\ idx = 0
    /\ all_forecasts = <<>>
    /\ failed_products = <<>>
    /\ final_forecast = <<>>
    /\ failed_csv = NoFile

SelectorIdle ==
    /\ current = <<NaNKey, NaNKey, NaNKey>>
    /\ product_df = <<>>
    /\ method = "NONE"
    /\ forecast_values = <<>>
    /\ forecast_df = <<>>
    /\ called = {}

RecursiveIdle ==
    /\ step = 0
    /\ forecasts = <<>>
    /\ evaluated = <<>>
    /\ failed_step = 0

HeuristicIdle ==
    /\ series = <<>>
    /\ window = 0

dateVars == <<date_row, dates, week>>

NoRow == [year |-> 0, month |-> 0, week_month |-> 0]

DateIdle ==
    /\ date_row = NoRow
    /\ dates = Null
    /\ week = Null

-----------------------------------------------------------------------------
(* The aggregator applied to every small transaction table.                *)

InitAgg ==
    /\ pc = "build_weekly_timeseries"
    /\ df \in RawTables
    /\ filter_attribute_products \in BOOLEAN
    /\ ts = <<>>
    /\ today = 0
    /\ horizon = 0
    /\ PipelineIdle /\ SelectorIdle /\ RecursiveIdle /\ DateIdle /\ HeuristicIdle

BuildWeeklyTimeseries ==
    /\ pc = "build_weekly_timeseries"
    /\ ts' = build_weekly_timeseries(df, filter_attribute_products)
    /\ pc' = "weekly_done"
    /\ UNCHANGED <<df, filter_attribute_products, today, horizon, dateVars>>
    /\ UNCHANGED <<pipelineVars, selectorVars, recursiveVars, heuristicVars>>

NextAgg == BuildWeeklyTimeseries

SpecAgg == InitAgg /\ [][NextAgg]_vars

\* The rows of the input that contribute to the output row o.
Contributing(o) ==
    SelectSeq(df, LAMBDA r :
        /\ WeekKey(r) = WeekKey(o)
        /\ (filter_attribute_products => Lower(r.product_name) \notin ATTRIBUTE_ONLY_PRODUCTS))

SumInvoiced(rows) == SumSeq([i \in DOMAIN rows |-> rows[i].total_qty_invoiced])

SumDelivered(rows) == SumSeq([i \in DOMAIN rows |-> rows[i].total_qty_delivered])

\* C1: every weekly row's qty_for_forecast is the larger of the two sums,
\* max(sum of total_qty_invoiced, sum of total_qty_delivered), over the rows
\* that contribute to its key.
C1_MaxOfSums ==
    pc = "weekly_done" =>
        \A k \in DOMAIN ts :
            ts[k].qty_for_forecast =
                Max(SumInvoiced(Contributing(ts[k])), SumDelivered(Contributing(ts[k])))

-----------------------------------------------------------------------------
(* Weekly tables as main() hands them to run_pipeline.                     *)

RatEq(a, b) ==
    \/ a[2] = 0 /\ b[2] = 0
    \/ a[2] # 0 /\ b[2] # 0 /\ a[1] * b[2] = b[1] * a[2]

SeqsUpTo(n, S) == UNION {[1..k -> S] : k \in 0..n}

\* main(): ts["date"] = ts.apply(week_month_to_date, axis=1)
WithDate(r) == r @@ [date |-> week_month_to_date(r)]

\* The weekly observations of group g in consecutive business weeks from
\* week k0 on, with the quantities qs.
History(g, k0, qs) ==
    [i \in DOMAIN qs |->
        WithDate(BusinessWeek(k0 + i - 1) @@
                 [product_name |-> g[1], product_uom |-> g[2], sales_type |-> g[3],
                  qty_for_forecast |-> qs[i]])]

GroupA == <<1, 1, 1>>
GroupASales2 == <<1, 1, 2>>
GroupB == <<2, 1, 1>>
GroupNaN == <<NaNKey, 1, 1>>

-----------------------------------------------------------------------------
(* The feature builder applied to tables of two groups.                    *)

FeatTables ==
    {History(GroupA, 0, qa) \o History(g, 0, qb) :
        qa \in SeqsUpTo(MaxFeatRows, {1, 2}),
        qb \in SeqsUpTo(MaxFeatRows, {1, 2}),
        g \in {GroupASales2, GroupB, GroupNaN}}

InitFeat ==
    /\ pc = "create_xgboost_features"
    /\ ts \in FeatTables
    /\ df = <<>>
    /\ filter_attribute_products = FALSE
    /\ today = 0
    /\ horizon = 0
    /\ PipelineIdle /\ SelectorIdle /\ RecursiveIdle /\ DateIdle /\ HeuristicIdle

CreateFeatures ==
    /\ pc = "create_xgboost_features"
    /\ ts' = create_xgboost_features(ts)
    /\ pc' = "features_done"
    /\ UNCHANGED <<df, filter_attribute_products, today, horizon, dateVars>>
    /\ UNCHANGED <<pipelineVars, selectorVars, recursiveVars, heuristicVars>>

NextFeat == CreateFeatures

SpecFeat == InitFeat /\ [][NextFeat]_vars

HasNaNKey(r) == r.product_name = NaNKey \/ r.product_uom = NaNKey \/ r.sales_type = NaNKey

\* The rows of r's group in table t, ordered by date.
GroupRows(t, r) ==
    LET g == SelectSeq(t, LAMBDA q : SameGroup(q, r))
    IN  SortBy(g, [i \in DOMAIN g |-> <<DateOrd(g[i].date)>>])

\* The mean of the y of rows from..to of the group rows g, NaN when from < 1.
MeanY(g, from, to) ==
    IF from < 1 \/ \E j \in from..to : g[j].y = Null THEN NullRat
    ELSE <<SumSeq([j \in 1..(to - from + 1) |-> g[from + j - 1].y]), to - from + 1>>

\* C2: in every product group, with its rows ordered by date, lag_1 at row i
\* is the group's y at row i-1 (null for the first row) and roll_mean_4 is the
\* mean of the group's y at rows i-4..i-1 (null while fewer than 4 prior rows
\* of the group exist), also when groups differ only in sales_type.
C2_LagAndRollWithinGroup ==
    pc = "features_done" =>
        \A i \in DOMAIN ts :
            ~HasNaNKey(ts[i]) =>
                LET g == GroupRows(ts, ts[i])
                    p == CHOOSE p \in DOMAIN g : g[p] = ts[i]
                IN  /\ ts[i].lag_1 = (IF p = 1 THEN Null ELSE g[p - 1].y)
                    /\ RatEq(ts[i].roll_mean_4, MeanY(g, p - 4, p - 1))

\* The lag half of C2 alone.
C2_LagWithinGroup ==
    pc = "features_done" =>
        \A i \in DOMAIN ts :
            ~HasNaNKey(ts[i]) =>
                LET g == GroupRows(ts, ts[i])
                    p == CHOOSE p \in DOMAIN g : g[p] = ts[i]
                IN  ts[i].lag_1 = (IF p = 1 THEN Null ELSE g[p - 1].y)

-----------------------------------------------------------------------------
(* forecast_single_product and xgboost_recursive_forecast, step by step.   *)

SelectorFrame ==
    UNCHANGED <<ts, filter_attribute_products, today, horizon, dateVars, series, window,
                pipelineVars, current>>

\* forecast_single_product up to its return, or up to the call of
\* xgboost_recursive_forecast.
ForecastSingleProduct ==
    /\ pc = "forecast_single_product"
    /\ LET rows == ProductRows(ts, current)
           x    == Quantities(rows)
       IN  /\ product_df' = rows
           /\ IF rows = <<>>
              THEN /\ pc' = "returned"
                   /\ forecast_df' = <<>>
                   /\ UNCHANGED <<method, forecast_values, called>>
              ELSE IF IsInactive(rows, today)
              THEN /\ pc' = "returned"
                   /\ method' = "ZERO_INACTIVE"
                   /\ forecast_values' = Repeat(Rat(0), horizon)
                   /\ forecast_df' = ForecastFrame(today, horizon, Repeat(Rat(0), horizon),
                                                   current, "ZERO_INACTIVE")
                   /\ UNCHANGED called
              ELSE IF Sufficient(rows)
              THEN /\ pc' = "xgboost_recursive_forecast"
                   /\ called' = called \cup {"xgboost_recursive_forecast"}
                   /\ UNCHANGED <<method, forecast_values, forecast_df>>
              ELSE /\ pc' = "returned"
                   /\ method' = AdaptiveMethod(x)
                   /\ forecast_values' = AdaptiveValues(x, horizon)
                   /\ called' = called \cup AdaptiveForecaster(AdaptiveMethod(x))
                   /\ forecast_df' = ForecastFrame(today, horizon, AdaptiveValues(x, horizon),
                                                   current, AdaptiveMethod(x))
    /\ UNCHANGED <<df, recursiveVars>>
    /\ SelectorFrame

\* An exception raised inside forecast_single_product, outside its own try
\* block: it reaches the caller.
ForecastRaises ==
    /\ pc = "forecast_single_product"
    /\ pc' = "raised"
    /\ product_df' = ProductRows(ts, current)
    /\ UNCHANGED <<df, method, forecast_values, forecast_df, called, recursiveVars>>
    /\ SelectorFrame

\* xgboost_recursive_forecast, before its loop: copy, log target, empty list.
XgbBegin ==
    /\ pc = "xgboost_recursive_forecast"
    /\ df' = WithLogTarget(product_df)
    /\ forecasts' = <<>>
    /\ step' = 0
    /\ evaluated' = <<>>
    /\ failed_step' = 0
    /\ pc' = "xgb_loop"
    /\ UNCHANGED <<product_df, method, forecast_values, forecast_df, called>>
    /\ SelectorFrame

\* An exception that leaves xgboost_recursive_forecast (raised outside its
\* per-step try): forecast_single_product falls back to the rolling mean.
XgbRaises ==
    /\ pc = "xgboost_recursive_forecast"
    /\ method' = "HEURISTIC_ROLLING_MEAN"
    /\ forecast_values' = rolling_mean_forecast(Quantities(product_df), horizon, 4)
    /\ called' = called \cup {"rolling_mean_forecast"}
    /\ forecast_df' = ForecastFrame(today, horizon,
                                    rolling_mean_forecast(Quantities(product_df), horizon, 4),
                                    current, "HEURISTIC_ROLLING_MEAN")
    /\ pc' = "returned"
    /\ UNCHANGED <<df, product_df, recursiveVars>>
    /\ SelectorFrame

\* One step of the loop that succeeds, the model predicting pred_log.
XgbStepOk ==
    /\ pc = "xgb_loop"
    /\ step < horizon
    /\ \E pred_log \in Predictions :
          \E r \in {RecursiveStep(df, encoders, pred_log)} :
              /\ df' = r.df
              /\ evaluated' = Append(evaluated, [row |-> r.last_row, pred_log |-> pred_log])
              /\ forecasts' = Append(forecasts, Rat(ClampedPrediction(pred_log)))
    /\ step' = step + 1
    /\ UNCHANGED <<pc, failed_step, selectorVars>>
    /\ SelectorFrame

\* One step of the loop that raises (feature creation, encoding or
\* model.predict): the rest is filled with zeros and the loop left.
XgbStepFails ==
    /\ pc = "xgb_loop"
    /\ step < horizon
    /\ forecasts' = forecasts \o ZeroFill(horizon, step)
    /\ failed_step' = step + 1
    /\ step' = step + 1
    /\ pc' = "xgb_break"
    /\ UNCHANGED <<df, evaluated, selectorVars>>
    /\ SelectorFrame

\* xgboost_recursive_forecast returns; forecast_single_product tags the
\* group and builds its table.  pd.DataFrame raises when the columns differ
\* in length.
XgbReturn ==
    /\ \/ pc = "xgb_loop" /\ step = horizon
       \/ pc = "xgb_break"
    /\ forecast_values' = forecasts
    /\ method' = "XGBOOST_RECURSIVE"
    /\ IF Len(forecasts) = horizon
       THEN /\ forecast_df' = ForecastFrame(today, horizon, forecasts, current,
                                            "XGBOOST_RECURSIVE")
            /\ pc' = "returned"
       ELSE /\ pc' = "raised"
            /\ UNCHANGED forecast_df
    /\ UNCHANGED <<df, product_df, called, recursiveVars>>
    /\ SelectorFrame

-----------------------------------------------------------------------------
(* forecast_single_product applied to one group of a two-group table.      *)

ShortValues == {-3, 0, 3, 10}

Const(n, v) == [i \in 1..n |-> v]

\* The histories of the group that is forecast.
SelSeries ==
    SeqsUpTo(MaxShort, ShortValues)
    \cup {<<10, 10, 10, 10, 10>>, <<1, 50, 2, 60, 3>>}
    \cup {Const(n, 3) : n \in 15..MaxLong}
    \cup {Const(MaxLong - 1, 3) \o Const(4, 0)}

TodayOffsets == {0, 27, 28, 42}

\* The date of the last row of a history of n weeks, or of the first
\* business week for an empty one.
LastDate(n) == week_month_to_date(BusinessWeek(Max(n, 1) - 1))

InitSel ==
    /\ pc = "forecast_single_product"
    /\ \E qs \in SelSeries, off \in TodayOffsets :
          /\ \E t \in {History(GroupA, 0, qs) \o History(GroupASales2, 0, <<3, 3>>)} :
                ts = create_xgboost_features(t)
          /\ today = LastDate(Len(qs)) + off
    /\ horizon \in 1..MaxHorizon
    /\ current = GroupA
    /\ trained = TRUE
    /\ encoders = FitEncoders(ts)
    /\ products = <<>> /\ idx = 0 /\ all_forecasts = <<>> /\ failed_products = <<>>
    /\ final_forecast = <<>> /\ failed_csv = NoFile
    /\ product_df = <<>> /\ method = "NONE" /\ forecast_values = <<>>
    /\ forecast_df = <<>> /\ called = {}
    /\ df = <<>>
    /\ filter_attribute_products = FALSE
    /\ RecursiveIdle /\ DateIdle /\ HeuristicIdle

NextSel ==
    \/ ForecastSingleProduct
    \/ ForecastRaises
    \/ XgbBegin
    \/ XgbRaises
    \/ XgbStepOk
    \/ XgbStepFails
    \/ XgbReturn

SpecSel == InitSel /\ [][NextSel]_vars

\* The group being forecast has rows, and either no row with a positive
\* quantity and a date, or its latest such date lies INACTIVE_GAP_WEEKS whole
\* weeks or more before today.
GroupInactive ==
    LET rows == ProductRows(ts, current)
    IN  \A i \in DOMAIN rows :
            (rows[i].qty_for_forecast > 0 /\ rows[i].date # Null)
                => today - rows[i].date >= 7 * INACTIVE_GAP_WEEKS

InModelCall == pc \in {"xgboost_recursive_forecast", "xgb_loop", "xgb_break"}

\* C3: an inactive group is forecast as horizon zeros tagged ZERO_INACTIVE,
\* whatever its history, and neither the model nor a heuristic forecaster is
\* invoked for it.
C3_InactiveZero ==
    (ProductRows(ts, current) # <<>> /\ GroupInactive) =>
        /\ ~InModelCall
        /\ called = {}
        /\ evaluated = <<>>
        /\ pc = "returned" =>
              /\ method = "ZERO_INACTIVE"
              /\ forecast_values = Repeat(Rat(0), horizon)
              /\ Len(forecast_df) = horizon
              /\ \A k \in DOMAIN forecast_df :
                    /\ forecast_df[k].forecast_qty = Rat(0)
                    /\ forecast_df[k].forecast_method = "ZERO_INACTIVE"

\* An inactive group with MIN_XGBOOST_ROWS fully-lagged rows or more, zeroed.
C3_Witness ==
    /\ pc = "returned"
    /\ GroupInactive
    /\ FullyLagged(product_df) >= MIN_XGBOOST_ROWS
    /\ method = "ZERO_INACTIVE"
    /\ Len(forecast_df) = horizon

\* C4: when step k is the first to fail, xgboost_recursive_forecast does not
\* raise and returns horizon values, the clamped predictions of steps 1..k-1
\* followed by zeros, no step after k is attempted, and the tag is
\* XGBOOST_RECURSIVE; when no step fails it returns horizon clamped predictions.
C4_PartialThenZeros ==
    /\ (pc = "raised") => "xgboost_recursive_forecast" \notin called
    /\ (pc \in {"xgb_break", "returned"} /\ failed_step > 0) =>
          /\ failed_step <= horizon
          /\ step = failed_step
          /\ Len(evaluated) = failed_step - 1
          /\ Len(forecasts) = horizon
          /\ \A i \in 1..(failed_step - 1) :
                /\ forecasts[i] = Rat(Max(Expm1(evaluated[i].pred_log), 0))
                /\ forecasts[i][1] >= 0
          /\ \A i \in failed_step..horizon : forecasts[i] = Rat(0)
          /\ pc = "returned" =>
                (method = "XGBOOST_RECURSIVE" /\ forecast_values = forecasts)
    /\ (pc = "returned" /\ method = "XGBOOST_RECURSIVE" /\ failed_step = 0) =>
          /\ Len(forecast_values) = horizon
          /\ Len(evaluated) = horizon
          /\ \A i \in 1..horizon :
                /\ forecast_values[i] = Rat(Max(Expm1(evaluated[i].pred_log), 0))
                /\ forecast_values[i][1] >= 0

\* Step 2 of 3 fails after a positive first prediction.
C4_Witness ==
    /\ pc = "returned"
    /\ horizon = 3
    /\ failed_step = 2
    /\ forecast_values[1][1] > 0
    /\ forecast_values[2] = Rat(0) /\ forecast_values[3] = Rat(0)
    /\ method = "XGBOOST_RECURSIVE"

\* C5: whenever the model attempt of a sufficient group meets a failure, at
\* a recursive step or elsewhere, the group's forecast is the rolling-mean
\* heuristic (window 4) and its tag HEURISTIC_ROLLING_MEAN.
C5_AnyFailureFallsBack ==
    (/\ pc = "returned"
     /\ "xgboost_recursive_forecast" \in called
     /\ (failed_step > 0 \/ "rolling_mean_forecast" \in called)) =>
        /\ method = "HEURISTIC_ROLLING_MEAN"
        /\ forecast_values = rolling_mean_forecast(Quantities(product_df), horizon, 4)

\* The group being forecast is n consecutive business weeks of one and the
\* same positive quantity, the last of them less than INACTIVE_GAP_WEEKS whole
\* weeks before today.
StableActive(n) ==
    LET rows == ProductRows(ts, current)
    IN  /\ Len(rows) = n
        /\ \A i \in DOMAIN rows :
              /\ rows[i].qty_for_forecast > 0
              /\ rows[i].qty_for_forecast = rows[1].qty_for_forecast
              /\ rows[i].date = week_month_to_date(BusinessWeek(i - 1))
        /\ n > 0
        /\ today - rows[n].date < 7 * INACTIVE_GAP_WEEKS

\* C8: a stable active group of 15 consecutive weeks passes the sufficiency
\* check and is tagged XGBOOST_RECURSIVE.
C8_FifteenWeeksModelPath ==
    (pc = "returned" /\ StableActive(15)) =>
        /\ FullyLagged(product_df) >= MIN_XGBOOST_ROWS
        /\ method = "XGBOOST_RECURSIVE"

\* C8 as amended: a stable active group of MIN_XGBOOST_ROWS + 8 consecutive
\* weeks or more has MIN_XGBOOST_ROWS fully-lagged rows or more, never takes
\* the adaptive heuristic branch, and is tagged XGBOOST_RECURSIVE whenever
\* xgboost_recursive_forecast returns.
C8_EighteenWeeksModelPath ==
    \A n \in (MIN_XGBOOST_ROWS + 8)..MaxLong :
        (StableActive(n) /\ pc # "forecast_single_product" /\ pc # "raised") =>
            /\ FullyLagged(product_df) >= MIN_XGBOOST_ROWS
            /\ "xgboost_recursive_forecast" \in called
            /\ "naive_forecast" \notin called
            /\ pc = "returned" =>
                  \/ method = "XGBOOST_RECURSIVE"
                  \/ (method = "HEURISTIC_ROLLING_MEAN" /\ step = 0
                        /\ "rolling_mean_forecast" \in called)

\* Eighteen stable weeks, forecast by the model without a failure.
C8_Witness ==
    /\ pc = "returned"
    /\ StableActive(MIN_XGBOOST_ROWS + 8)
    /\ method = "XGBOOST_RECURSIVE"
    /\ failed_step = 0
    /\ step = horizon

\* cv = std / mean < 0.3 and |mean first difference| < 0.1 * mean, for a
\* series x of two or more values: with n = len and S = sum,
\* std^2 = sum((n*x[i] - S)^2) / (n^2 * (n-1)), mean = S / n, and the mean
\* first difference is sum(x[i+1] - x[i]) / (n - 1).
StableSeries(x) ==
    LET n == Len(x)
        S == SumSeq(x)
    IN  /\ S > 0
        /\ 100 * SumSeq([i \in 1..n |-> (n * x[i] - S) * (n * x[i] - S)]) < 9 * (n - 1) * S * S
        /\ 10 * n * Abs(SumSeq([i \in 1..(n - 1) |-> x[i + 1] - x[i]])) < (n - 1) * S

AdaptiveCase ==
    /\ pc = "returned"
    /\ ~GroupInactive
    /\ FullyLagged(product_df) < MIN_XGBOOST_ROWS
    /\ Len(product_df) >= 2

\* C10: an active group with too few fully-lagged rows and two or more
\* observations is tagged HEURISTIC_NAIVE exactly when its series is stable
\* and HEURISTIC_ROLLING_MEAN otherwise.
C10_NaiveIffStable ==
    AdaptiveCase =>
        /\ method = (IF StableSeries(Quantities(product_df)) THEN "HEURISTIC_NAIVE"
                     ELSE "HEURISTIC_ROLLING_MEAN")
        /\ Quantities(product_df) = <<10, 10, 10, 10, 10>> => method = "HEURISTIC_NAIVE"
        /\ Quantities(product_df) = <<1, 50, 2, 60, 3>> => method = "HEURISTIC_ROLLING_MEAN"

\* C10 as amended: the same, for a group whose quantities do not sum to
\* zero (a zero sum is tagged HEURISTIC_ZERO).
C10_NaiveIffStableNonzeroSum ==
    (AdaptiveCase /\ SumSeq(Quantities(product_df)) # 0) =>
        /\ method = (IF StableSeries(Quantities(product_df)) THEN "HEURISTIC_NAIVE"
                     ELSE "HEURISTIC_ROLLING_MEAN")
        /\ Quantities(product_df) = <<10, 10, 10, 10, 10>> => method = "HEURISTIC_NAIVE"
        /\ Quantities(product_df) = <<1, 50, 2, 60, 3>> => method = "HEURISTIC_ROLLING_MEAN"

\* The volatile series of the claim, forecast by the rolling mean.
C10_Witness ==
    /\ AdaptiveCase
    /\ Quantities(product_df) = <<1, 50, 2, 60, 3>>
    /\ method = "HEURISTIC_ROLLING_MEAN"
    /\ called = {"rolling_mean_forecast"}

\* A business-week boundary: a date whose day of the month is 1, 8, 15 or 22.
IsWeekBoundary(n) == DayOf(n) \in {1, 8, 15, 22}

\* The earliest business-week boundary on or after day n.
NextWeekBoundary(n) ==
    CHOOSE d \in n..(n + 9) :
        IsWeekBoundary(d) /\ \A e \in n..(d - 1) : ~IsWeekBoundary(e)

\* C14: the dates forecast_single_product emits are horizon dates 7 days
\* apart, the first of them the earliest business-week boundary on or after
\* today.
C14_DatesFromWeekBoundary ==
    (pc = "returned" /\ forecast_df # <<>>) =>
        /\ Len(forecast_df) = horizon
        /\ forecast_df[1].date = NextWeekBoundary(today)
        /\ \A k \in 2..Len(forecast_df) :
              forecast_df[k].date = forecast_df[k - 1].date + 7

\* C17: at every step after the first of an unbroken recursive forecast, the
\* row the model evaluates has lag_1 equal to the raw log-scale prediction of
\* the step before.
C17_LagIsPreviousPrediction ==
    \A k \in 2..Len(evaluated) :
        evaluated[k].row.lag_1 = evaluated[k - 1].pred_log

\* C18: the forecast rows of a group have pairwise distinct
\* (year, month, week_month) keys.
C18_DistinctWeekKeys ==
    (pc = "returned" /\ horizon >= 2) =>
        \A i, k \in DOMAIN forecast_df :
            i # k =>
                <<forecast_df[i].year, forecast_df[i].month, forecast_df[i].week_month>>
                  # <<forecast_df[k].year, forecast_df[k].month, forecast_df[k].week_month>>

-----------------------------------------------------------------------------
(* pipeline/forecast_pipeline.py: run_pipeline, and main()'s use of it.    *)

\* ts[["product_name", "product_uom", "sales_type"]].drop_duplicates():
\* the distinct groups in order of first appearance (NaN keys alike).
DistinctGroups(t) == UniqueSeq([i \in DOMAIN t |-> GroupOf(t[i])])

RecordFailureDropped(failed, g, reason) == failed

\* failed_products.append({...group..., "reason": reason})
RecordFailure(failed, g, reason) ==
    Append(failed, [product_name |-> g[1], product_uom |-> g[2], sales_type |-> g[3],
                    reason |-> reason])

LastFrameOnly(frames) == frames[Len(frames)]

\* pd.concat(all_forecasts, ignore_index=True)
RECURSIVE ConcatFrames(_)
ConcatFrames(frames) ==
    IF Len(frames) = 0 THEN <<>> ELSE Head(frames) \o ConcatFrames(Tail(frames))

PipelineFrame ==
    UNCHANGED <<df, filter_attribute_products, today, horizon, dateVars, series, window>>

\* run_pipeline: create_xgboost_features over the whole table.
PipelineCreateFeatures ==
    /\ pc = "run_pipeline"
    /\ ts' = create_xgboost_features(ts)
    /\ pc' = "train_xgboost_model"
    /\ UNCHANGED <<pipelineVars, selectorVars, recursiveVars>>
    /\ PipelineFrame

\* train_xgboost_model raises: no row is left after dropna, or the fit
\* itself fails; run_pipeline logs and re-raises.
TrainRaises ==
    /\ pc = "train_xgboost_model"
    /\ pc' = "pipeline_raised"
    /\ UNCHANGED <<ts, pipelineVars, selectorVars, recursiveVars>>
    /\ PipelineFrame

TrainSucceedsUnguarded ==
    /\ pc = "train_xgboost_model"
    /\ trained' = TRUE
    /\ encoders' = FitEncoders(ts)
    /\ all_forecasts' = <<>>
    /\ failed_products' = <<>>
    /\ products' = DistinctGroups(ts)
    /\ idx' = 0
    /\ pc' = "loop"
    /\ UNCHANGED <<ts, final_forecast, failed_csv, selectorVars, recursiveVars>>
    /\ PipelineFrame

\* train_xgboost_model returns the model and its encoders; run_pipeline
\* lists the groups and enters its loop.
TrainSucceeds ==
    /\ pc = "train_xgboost_model"
    /\ TrainingRows(ts) # <<>>
    /\ trained' = TRUE
    /\ encoders' = FitEncoders(ts)
    /\ all_forecasts' = <<>>
    /\ failed_products' = <<>>
    /\ products' = DistinctGroups(ts)
    /\ idx' = 0
    /\ pc' = "loop"
    /\ UNCHANGED <<ts, final_forecast, failed_csv, selectorVars, recursiveVars>>
    /\ PipelineFrame

\* The loop calls forecast_single_product for the next group.
LoopCall ==
    /\ pc = "loop"
    /\ idx < Len(products)
    /\ current' = products[idx + 1]
    /\ product_df' = <<>> /\ method' = "NONE" /\ forecast_values' = <<>>
    /\ forecast_df' = <<>> /\ called' = {}
    /\ step' = 0 /\ forecasts' = <<>> /\ evaluated' = <<>> /\ failed_step' = 0
    /\ pc' = "forecast_single_product"
    /\ UNCHANGED <<ts, pipelineVars>>
    /\ PipelineFrame

\* forecast_single_product returned: a non-empty table is collected, an
\* empty one recorded as a failure.
LoopCollect ==
    /\ pc = "returned"
    /\ trained
    /\ IF forecast_df # <<>>
       THEN /\ all_forecasts' = Append(all_forecasts, forecast_df)
            /\ UNCHANGED failed_products
       ELSE /\ failed_products' = RecordFailure(failed_products, current,
                                                "Empty forecast returned")
            /\ UNCHANGED all_forecasts
    /\ idx' = idx + 1
    /\ pc' = "loop"
    /\ UNCHANGED <<ts, trained, encoders, products, final_forecast, failed_csv,
                   selectorVars, recursiveVars>>
    /\ PipelineFrame

\* forecast_single_product raised: the loop's except records the group.
\* (The progress log that follows the try changes no state.)
LoopCatch ==
    /\ pc = "raised"
    /\ trained
    /\ failed_products' = RecordFailure(failed_products, current, "Error")
    /\ idx' = idx + 1
    /\ pc' = "loop"
    /\ UNCHANGED <<ts, trained, encoders, products, all_forecasts, final_forecast,
                   failed_csv, selectorVars, recursiveVars>>
    /\ PipelineFrame

\* After the loop: forecast_time / len(products) raises for an empty list of
\* groups; with forecasts collected they are concatenated and returned, and
\* failed_forecasts.csv is written when a group failed; with none collected an
\* empty table is returned.
PipelineFinish ==
    /\ pc = "loop"
    /\ idx = Len(products)
    /\ IF Len(products) = 0
       THEN /\ pc' = "pipeline_raised"
            /\ UNCHANGED <<final_forecast, failed_csv>>
       ELSE /\ pc' = "pipeline_returned"
            /\ IF all_forecasts # <<>>
               THEN /\ final_forecast' = ConcatFrames(all_forecasts)
                    /\ failed_csv' = IF failed_products # <<>>
                                     THEN [written |-> TRUE, rows |-> failed_products]
                                     ELSE failed_csv
               ELSE /\ final_forecast' = <<>>
                    /\ UNCHANGED failed_csv
    /\ UNCHANGED <<ts, trained, encoders, products, idx, all_forecasts, failed_products,
                   selectorVars, recursiveVars>>
    /\ PipelineFrame

MainAfterPipelineLenient ==
    /\ pc \in {"pipeline_returned", "pipeline_raised"}
    /\ pc' = IF pc = "pipeline_returned" THEN "main_returned" ELSE "main_raised"
    /\ UNCHANGED <<ts, pipelineVars, selectorVars, recursiveVars>>
    /\ PipelineFrame

\* main(): an empty forecast raises ValueError, anything else is saved; an
\* exception of run_pipeline is logged and re-raised.
MainAfterPipeline ==
    /\ pc \in {"pipeline_returned", "pipeline_raised"}
    /\ pc' = IF pc = "pipeline_returned" /\ final_forecast # <<>>
             THEN "main_returned" ELSE "main_raised"
    /\ UNCHANGED <<ts, pipelineVars, selectorVars, recursiveVars>>
    /\ PipelineFrame

\* The tables run_pipeline is run on: a long group A, a two-week group B
\* (starting in business week 3, or ending with A), a row with a NaN name.
PipeTables ==
    {History(GroupA, 0, Const(n, 3))
       \o History(GroupB, k, Const(m, 3))
       \o History(GroupNaN, 0, Const(e, 3)) :
        n \in {0, 5, 15, MaxLong - 1}, k \in {3, MaxLong - 3}, m \in {0, 2}, e \in {0, 1}}

Init ==
    /\ pc = "run_pipeline"
    /\ ts \in PipeTables
    /\ \E off \in {0, 28} : today = LastDate(MaxLong - 1) + off
    /\ horizon = FORECAST_HORIZON
    /\ df = <<>>
    /\ filter_attribute_products = TRUE
    /\ PipelineIdle /\ SelectorIdle /\ RecursiveIdle /\ DateIdle /\ HeuristicIdle

Next ==
    \/ PipelineCreateFeatures
    \/ TrainRaises
    \/ TrainSucceeds
    \/ LoopCall
    \/ ForecastSingleProduct
    \/ ForecastRaises
    \/ XgbBegin
    \/ XgbRaises
    \/ XgbStepOk
    \/ XgbStepFails
    \/ XgbReturn
    \/ LoopCollect
    \/ LoopCatch
    \/ PipelineFinish
    \/ MainAfterPipeline

Spec == Init /\ [][Next]_vars

\* The loop of run_pipeline has ended: run_pipeline returned.
LoopEnded == trained /\ pc \in {"pipeline_returned", "main_returned", "main_raised"}

InputGroups == {GroupOf(ts[i]) : i \in DOMAIN ts}

FrameGroup(frame) ==
    <<frame[1].product_name, frame[1].product_uom, frame[1].sales_type>>

FailedGroup(f) == <<f.product_name, f.product_uom, f.sales_type>>

CollectedFor(g) == {i \in DOMAIN all_forecasts : FrameGroup(all_forecasts[i]) = g}

FailedFor(g) == {i \in DOMAIN failed_products : FailedGroup(failed_products[i]) = g}

\* C6: a failed group never stops the loop of run_pipeline: every group
\* before the loop's position is in exactly one of the collected forecast
\* tables and the failed list (with a reason), no later group is in either,
\* and when the loop has ended that holds for every distinct group of the
\* input.
C6_EveryGroupExactlyOnce ==
    /\ (trained /\ pc = "loop") =>
          /\ idx = Len(all_forecasts) + Len(failed_products)
          /\ \A i \in DOMAIN products :
                Cardinality(CollectedFor(products[i]))
                  + Cardinality(FailedFor(products[i])) = IF i <= idx THEN 1 ELSE 0
    /\ LoopEnded =>
          /\ idx = Len(products)
          /\ InputGroups = {products[i] : i \in DOMAIN products}
          /\ \A g \in InputGroups :
                Cardinality(CollectedFor(g)) + Cardinality(FailedFor(g)) = 1
          /\ \A i \in DOMAIN all_forecasts : all_forecasts[i] # <<>>
          /\ \A i \in DOMAIN failed_products :
                failed_products[i].reason \in {"Error", "Empty forecast returned"}

\* The loop has ended after a group that raised, a group that returned an
\* empty table and a later group whose forecast was collected.
C6_Witness ==
    /\ LoopEnded
    /\ \E i, j \in DOMAIN products :
          /\ i < j
          /\ FailedFor(products[i]) # {}
          /\ CollectedFor(products[j]) # {}
    /\ \E i, j \in DOMAIN failed_products :
          /\ failed_products[i].reason = "Error"
          /\ failed_products[j].reason = "Empty forecast returned"

RowsOfGroup(table, g) ==
    {k \in DOMAIN table :
        <<table[k].product_name, table[k].product_uom, table[k].sales_type>> = g}

\* C7: when training succeeds and no group fails, the table run_pipeline
\* returns has exactly FORECAST_HORIZON rows for each distinct group of the
\* input and nothing else, and the failed list is empty.
C7_HorizonRowsPerGroup ==
    (LoopEnded /\ failed_products = <<>>) =>
        /\ \A g \in InputGroups :
              Cardinality(RowsOfGroup(final_forecast, g)) = FORECAST_HORIZON
        /\ Len(final_forecast) = FORECAST_HORIZON * Cardinality(InputGroups)
        /\ failed_csv = NoFile

\* Two groups, one forecast on the model path and one ZERO_INACTIVE, none
\* failed: 2 * FORECAST_HORIZON rows.
C7_Witness ==
    /\ pc = "pipeline_returned"
    /\ failed_products = <<>>
    /\ Cardinality(InputGroups) = 2
    /\ Len(final_forecast) = 2 * FORECAST_HORIZON
    /\ \E k \in DOMAIN final_forecast :
          final_forecast[k].forecast_method = "XGBOOST_RECURSIVE"
    /\ \E k \in DOMAIN final_forecast :
          final_forecast[k].forecast_method = "ZERO_INACTIVE"

\* Every group of a non-empty list of groups failed.
AllGroupsFailed ==
    LoopEnded /\ Len(products) > 0 /\ Len(failed_products) = Len(products)

\* C13: when every group fails, or the input has no group at all,
\* run_pipeline returns an empty table instead of raising, and main then
\* raises.
C13_EmptyTableReturned ==
    /\ AllGroupsFailed =>
          (final_forecast = <<>> /\ pc \in {"pipeline_returned", "main_raised"})
    /\ InputGroups = {} =>
          (pc # "pipeline_raised" /\ (pc = "main_raised" => trained))

\* C13 as amended: when every group fails after a successful training,
\* run_pipeline returns an empty table and main raises; on an input without
\* groups the training raises, run_pipeline raises with it and returns no
\* table, and main raises as well.
C13_AllFailedOrNoGroups ==
    /\ AllGroupsFailed =>
          (final_forecast = <<>> /\ pc \in {"pipeline_returned", "main_raised"})
    /\ pc = "main_returned" => final_forecast # <<>>
    /\ InputGroups = {} =>
          /\ ~trained
          /\ final_forecast = <<>>
          /\ pc \in {"run_pipeline", "train_xgboost_model", "pipeline_raised", "main_raised"}

\* Two groups or more, all failed, and main has raised.
C13_Witness ==
    /\ pc = "main_raised"
    /\ AllGroupsFailed
    /\ Len(products) >= 2

\* C15: no group is forecast before the training has returned, and when no
\* row is left to train on the training raises, the run aborts, and no group
\* is forecast nor any forecast row emitted.
C15_TrainingFirst ==
    /\ pc \in {"loop", "forecast_single_product", "xgboost_recursive_forecast",
               "xgb_loop", "xgb_break", "returned", "raised",
               "pipeline_returned", "main_returned"} => trained
    /\ ~trained =>
          /\ called = {} /\ product_df = <<>> /\ forecast_df = <<>>
          /\ products = <<>> /\ all_forecasts = <<>> /\ final_forecast = <<>>
    /\ (pc # "run_pipeline" /\ TrainingRows(ts) = <<>>) =>
          /\ ~trained
          /\ pc \in {"train_xgboost_model", "pipeline_raised", "main_raised"}

\* A run aborted by the training for want of rows, on a table that has an
\* inactive group.
C15_Witness ==
    /\ pc = "main_raised"
    /\ ~trained
    /\ TrainingRows(ts) = <<>>
    /\ \E g \in InputGroups :
          ProductRows(ts, g) # <<>> /\ IsInactive(ProductRows(ts, g), today)

\* C16: whenever a group has failed, the table of failed groups has been
\* written by the end of the run, one entry per failed group, also when
\* every group failed.
C16_FailedTableWritten ==
    (LoopEnded /\ failed_products # <<>>) =>
        /\ failed_csv.written
        /\ failed_csv.rows = failed_products

-----------------------------------------------------------------------------
(* The heuristic forecasters applied to every short series.                *)

SeriesValues == {-2, 0, 3}

InitHeur ==
    /\ pc = "heuristic"
    /\ series \in SeqsUpTo(MaxSeries, SeriesValues)
    /\ horizon \in 0..MaxHorizon
    /\ window \in {2, 4}
    /\ df = <<>> /\ ts = <<>>
    /\ filter_attribute_products = FALSE
    /\ today = 0
    /\ PipelineIdle /\ SelectorIdle /\ RecursiveIdle /\ DateIdle

HeurFrame ==
    /\ UNCHANGED <<df, ts, filter_attribute_products, today, horizon, dateVars, series, window>>
    /\ UNCHANGED <<pipelineVars, current, product_df, method, forecast_df, called,
                   recursiveVars>>

RollingMeanForecast ==
    /\ pc = "heuristic"
    /\ forecast_values' = rolling_mean_forecast(series, horizon, window)
    /\ pc' = "rolling_mean_done"
    /\ HeurFrame

ExponentialSmoothingForecast ==
    /\ pc = "heuristic"
    /\ forecast_values' = exponential_smoothing_forecast(series, horizon)
    /\ pc' = "exponential_smoothing_done"
    /\ HeurFrame

NaiveForecast ==
    /\ pc = "heuristic"
    /\ forecast_values' = naive_forecast(series, horizon)
    /\ pc' = "naive_done"
    /\ HeurFrame

NextHeur == RollingMeanForecast \/ ExponentialSmoothingForecast \/ NaiveForecast

SpecHeur == InitHeur /\ [][NextHeur]_vars

HeurDone == pc \in {"rolling_mean_done", "exponential_smoothing_done", "naive_done"}

\* C9: for every series, the empty one and those with negative values
\* included, and every horizon h >= 0, each heuristic forecaster returns
\* exactly h values, all equal to one another and none negative.
C9_HeuristicsShape ==
    HeurDone =>
        /\ Len(forecast_values) = horizon
        /\ \A i \in DOMAIN forecast_values :
              /\ forecast_values[i][2] > 0
              /\ forecast_values[i][1] >= 0
              /\ forecast_values[i] = forecast_values[1]

\* A rolling mean over a series with a negative value that is itself
\* negative before the clamp, forecast over two or more periods.
C9_Witness ==
    /\ pc = "rolling_mean_done"
    /\ horizon >= 2
    /\ Len(series) >= window
    /\ SumSeq(SeriesTail(series, window)) < 0
    /\ forecast_values[horizon] = Rat(0)

-----------------------------------------------------------------------------
(* utils/date_utils.py applied to every row and every calendar date.       *)

\* The rows week_month_to_date is given, valid and not.
DateRows ==
    [year : BaseYear..(BaseYear + MaxYears), month : 0..13, week_month : 0..5]

\* The calendar dates of the years modelled.
CalendarDates == 0..(DayNumber(BaseYear + MaxYears + 1, 1, 1) - 1)

InitDate ==
    /\ \/ /\ pc = "week_month_to_date"
          /\ date_row \in DateRows
          /\ dates = Null
       \/ /\ pc = "week_month_from_date"
          /\ date_row = NoRow
          /\ dates \in CalendarDates
    /\ week = Null
    /\ df = <<>> /\ ts = <<>>
    /\ filter_attribute_products = FALSE
    /\ today = 0
    /\ horizon = 0
    /\ PipelineIdle /\ SelectorIdle /\ RecursiveIdle /\ HeuristicIdle

DateFrame ==
    /\ UNCHANGED <<df, ts, filter_attribute_products, today, horizon>>
    /\ UNCHANGED <<pipelineVars, selectorVars, recursiveVars, heuristicVars>>

\* week_month_to_date(row): returns a date, or NaT for whatever went wrong.
WeekMonthToDate ==
    /\ pc = "week_month_to_date"
    /\ dates' = week_month_to_date(date_row)
    /\ pc' = "week_month_to_date_returned"
    /\ UNCHANGED <<date_row, week>>
    /\ DateFrame

\* week_month_from_date(dates) on a Timestamp.
WeekMonthFromDate ==
    /\ pc \in {"week_month_from_date", "week_month_to_date_returned"}
    /\ dates # Null
    /\ week' = week_month_from_date(dates)
    /\ pc' = "week_month_from_date_returned"
    /\ UNCHANGED <<date_row, dates>>
    /\ DateFrame

\* week_month_from_date(pd.NaT): NaT is neither a DatetimeIndex nor a
\* Timestamp and has no .dt accessor, the call raises AttributeError.
WeekMonthFromDateRaises ==
    /\ pc = "week_month_to_date_returned"
    /\ dates = Null
    /\ pc' = "week_month_from_date_raised"
    /\ UNCHANGED <<date_row, dates, week>>
    /\ DateFrame

NextDate ==
    \/ WeekMonthToDate
    \/ WeekMonthFromDate
    \/ WeekMonthFromDateRaises

SpecDate == InitDate /\ [][NextDate]_vars

\* A row of a valid month and a week in 1..4 (every year drawn is valid).
ValidRow(r) == r.month \in 1..12 /\ r.week_month \in 1..4

\* The day of the month of day number n: the d for which day n - d + 1 is
\* the first of a month that has d days or more.
DayOfMonth(n) ==
    CHOOSE d \in 1..31 :
        \E yr \in BaseYear..(BaseYear + MaxYears), m \in 1..12 :
            DayNumber(yr, m, 1) = n - d + 1 /\ d <= DaysInMonth(yr, m)

\* C11: week_month_from_date undoes week_month_to_date on every valid
\* (year, month, week) with week in 1..4, and on every calendar date it
\* returns min(4, ((day - 1) // 7) + 1), a value in 1..4.
C11_WeekRoundTrip ==
    pc = "week_month_from_date_returned" =>
        /\ week \in 1..4
        /\ week = Min(4, ((DayOfMonth(dates) - 1) \div 7) + 1)
        /\ date_row # NoRow => (ValidRow(date_row) /\ week = date_row.week_month)

\* The round trip of week 4 of February 2024, and the 31st of a month.
C11_Witness ==
    /\ pc = "week_month_from_date_returned"
    /\ \/ date_row = [year |-> BaseYear, month |-> 2, week_month |-> 4] /\ week = 4
       \/ date_row = NoRow /\ DayOfMonth(dates) = 31 /\ week = 4

\* C12: week_month_to_date never returns for an invalid row: not a null
\* date, not a coerced date.
C12_InvalidInputRaises ==
    pc = "week_month_to_date_returned" => ValidRow(date_row)

====
